---- MODULE Spec2Model ----
(***************************************************************************)
(* The prompt library's persistence layer (services/storageService.ts):    *)
(* one JSON blob under STORAGE_KEY, one snapshot under BACKUP_KEY, and the *)
(* operations getPrompts, savePrompt, savePrompts, deletePrompt,           *)
(* restoreFromBackup and importData over them; and App, whose handlers     *)
(* call them: the editor's save, delete, the bulk refine with its awaited *)
(* analysis, import and restore.                                           *)
(*                                                                         *)
(* There are five specifications: Spec (the service in use, from the empty *)
(* storage), SpecOnce (one call of the service on any storage), SpecCsv    *)
(* (one CSV export of a stored collection), SpecApp (App's handlers) and   *)
(* SpecEditor (PromptEditor, with its awaited analysis).                   *)
(*                                                                         *)
(* JavaScript values are modelled as follows.                              *)
(*   - undefined, and a property that is missing, read the same way in     *)
(*     the code, and both are Undef for a string and NoTime for a number.  *)
(*   - a value that may or may not be an array (tags, useCases) is the     *)
(*     record [array, items].                                              *)
(*   - a text is [kind, val, space]: kind "json" when JSON.parse accepts   *)
(*     it (val is what it parses to), "garbage" when JSON.parse throws,    *)
(*     and "null" for the null that getItem returns for a missing key.     *)
(*   - sequences are 1-based: findIndex gives 0 where the code gives -1.   *)
(***************************************************************************)
EXTENDS Integers, Sequences, FiniteSets, TLC

\* ------------------------------------------------------------------ bounds

\* timestamps are 1..MaxTime
MaxTime == 2
\* an import file holds at most MaxFile entries
MaxFile == 2
\* a session of App ends when Date.now() has reached MaxClock
MaxClock == 6
\* the saves of one session of the editor
MaxSaves == 2
\* the length of the texts a record exported as CSV holds
MaxStr == 2

\* ------------------------------------------------------------------ values

STORAGE_KEY == "nanobanana_prompts_v1"
BACKUP_KEY == "nanobanana_prompts_backup"

Undef == "undefined"
NoTime == 0

Ids == {"a", "b"}
Times == 1 .. MaxTime

NotArray == [array |-> FALSE, items |-> <<>>]
Array(s) == [array |-> TRUE, items |-> s]

\* JavaScript truthiness of a string-or-undefined and of a number-or-undefined
TruthyStr(v) == v \notin {Undef, ""}
TruthyNum(v) == v # NoTime

\* types.ts PromptData, with the useCases the service and the refine write
PromptData(id, title, content, createdAt, updatedAt) ==
  [id |-> id, title |-> title, content |-> content, breakdown |-> "",
   tags |-> Array(<<>>), useCases |-> Array(<<>>), sourceLink |-> "",
   createdAt |-> createdAt, updatedAt |-> updatedAt]

\* ------------------------------------------------------------------ JSON

Null == [kind |-> "null", val |-> [array |-> FALSE, items |-> <<>>], space |-> 0]
Garbage == [kind |-> "garbage", val |-> [array |-> FALSE, items |-> <<>>], space |-> 0]

\* JSON.stringify(value, null, space)
JSONstringify(value, space) == [kind |-> "json", val |-> value, space |-> space]
\* JSON.parse(text) throws on anything but JSON
JSONparseThrows(text) == text.kind # "json"
JSONparse(text) == text.val

\* `if (text)` on what getItem returned: null is falsy, a stored text is not
\* (no write of the service stores the empty string)
TruthyText(text) == text.kind # "null"

\* ------------------------------------------------------------------ localStorage

\* What the browser refuses during one call of the service: "getItem" when the
\* storage cannot be accessed at all (then nothing can be written either),
\* a key when a write to it exceeds the quota.
Envs ==
  { {}, {BACKUP_KEY}, {STORAGE_KEY}, {"getItem", BACKUP_KEY, STORAGE_KEY} }

getItemThrows(env) == "getItem" \in env
setItemThrows(env, key) == key \in env
getItem(ls, key) == ls[key]
setItem(ls, key, text) == [ls EXCEPT ![key] = text]

\* the outcome of one call: the storage it leaves, whether it threw, and
\* what it returned
NoStats == [added |-> 0, updated |-> 0]
Returned(ls, ret) ==
  [ls |-> ls, threw |-> FALSE, error |-> "", ret |-> ret, stats |-> NoStats]
Threw(ls, error) ==
  [ls |-> ls, threw |-> TRUE, error |-> error, ret |-> <<>>, stats |-> NoStats]

\* ------------------------------------------------------------------ array helpers

RECURSIVE findIndexFrom(_, _, _)
findIndexFrom(s, id, i) ==
  IF i > Len(s) THEN 0
  ELSE IF s[i].id = id THEN i
  ELSE findIndexFrom(s, id, i + 1)

\* current.findIndex(p => p.id === id)
findIndex(s, id) == findIndexFrom(s, id, 1)

\* current.filter(p => p.id !== id)
filterOut(s, id) == SelectSeq(s, LAMBDA p : p.id # id)

\* ------------------------------------------------------------------ the service

\* a read without the try/catch
getPromptsUnguarded(ls, env) ==
  IF getItemThrows(env) THEN Threw(ls, "SecurityError")
  ELSE LET data == getItem(ls, STORAGE_KEY) IN
       IF ~TruthyText(data) THEN Returned(ls, <<>>)
       ELSE IF JSONparseThrows(data) THEN Threw(ls, "SyntaxError")
       ELSE Returned(ls, JSONparse(data).items)

\* getPrompts: the try/catch turns a refused read and an unparseable blob
\* into the empty collection
getPrompts(ls, env) ==
  IF getItemThrows(env) THEN Returned(ls, <<>>)
  ELSE LET data == getItem(ls, STORAGE_KEY) IN
       IF ~TruthyText(data) THEN Returned(ls, <<>>)
       ELSE IF JSONparseThrows(data) THEN Returned(ls, <<>>)
       ELSE Returned(ls, JSONparse(data).items)

\* a snapshot that is taken only while there is none yet
createBackupOnce(ls, env) ==
  IF getItemThrows(env) THEN ls
  ELSE LET current == getItem(ls, STORAGE_KEY) IN
       IF TruthyText(current) /\ ~TruthyText(getItem(ls, BACKUP_KEY))
       THEN IF setItemThrows(env, BACKUP_KEY) THEN ls
            ELSE setItem(ls, BACKUP_KEY, current)
       ELSE ls

\* createBackup: copies the primary blob, when there is one, to the backup
\* key; the try/catch swallows a refused read or write
createBackup(ls, env) ==
  IF getItemThrows(env) THEN ls
  ELSE LET current == getItem(ls, STORAGE_KEY) IN
       IF TruthyText(current)
       THEN IF setItemThrows(env, BACKUP_KEY) THEN ls
            ELSE setItem(ls, BACKUP_KEY, current)
       ELSE ls

\* a write to the primary key whose failure is caught and logged
writePromptsGuarded(ls, prompts, ret, env) ==
  IF setItemThrows(env, STORAGE_KEY) THEN Returned(ls, ret)
  ELSE Returned(setItem(ls, STORAGE_KEY, JSONstringify(Array(prompts), 0)), ret)

\* the write of a collection to the primary key, which no caller guards
writePrompts(ls, prompts, ret, env) ==
  IF setItemThrows(env, STORAGE_KEY) THEN Threw(ls, "QuotaExceededError")
  ELSE Returned(setItem(ls, STORAGE_KEY, JSONstringify(Array(prompts), 0)), ret)

\* an upsert that puts a new record last
savePromptAppend(ls, prompt, env) ==
  LET ls1 == createBackup(ls, env)
      current == getPrompts(ls1, env).ret
      existingIndex == findIndex(current, prompt.id)
      updated == IF existingIndex >= 1
                 THEN [current EXCEPT ![existingIndex] = prompt]
                 ELSE current \o <<prompt>>
  IN writePrompts(ls1, updated, updated, env)

\* an upsert that does not look for the id
savePromptAlwaysPrepend(ls, prompt, env) ==
  LET ls1 == createBackup(ls, env)
      current == getPrompts(ls1, env).ret
      updated == <<prompt>> \o current
  IN writePrompts(ls1, updated, updated, env)

\* an upsert that moves the record it replaces to the front
savePromptMoveToFront(ls, prompt, env) ==
  LET ls1 == createBackup(ls, env)
      current == getPrompts(ls1, env).ret
      updated == <<prompt>> \o filterOut(current, prompt.id)
  IN writePrompts(ls1, updated, updated, env)

savePrompt(ls, prompt, env) ==
  LET ls1 == createBackup(ls, env)
      current == getPrompts(ls1, env).ret
      existingIndex == findIndex(current, prompt.id)
      updated == IF existingIndex >= 1
                 THEN [current EXCEPT ![existingIndex] = prompt]
                 ELSE <<prompt>> \o current
  IN writePrompts(ls1, updated, updated, env)

\* a bulk overwrite that takes its snapshot after the write
savePromptsThenBackup(ls, prompts, env) ==
  LET written == writePrompts(ls, prompts, <<>>, env)
  IN IF written.threw THEN written
     ELSE [written EXCEPT !.ls = createBackup(written.ls, env)]

\* savePrompts returns nothing: ret is the empty sequence
savePrompts(ls, prompts, env) ==
  LET ls1 == createBackup(ls, env)
  IN writePrompts(ls1, prompts, <<>>, env)

\* a delete that removes the primary key when no record is left
deletePromptRemovingEmpty(ls, id, env) ==
  LET ls1 == createBackup(ls, env)
      current == getPrompts(ls1, env).ret
      updated == filterOut(current, id)
  IN IF updated = <<>> /\ ~setItemThrows(env, STORAGE_KEY)
     THEN Returned(setItem(ls1, STORAGE_KEY, Null), updated)
     ELSE writePrompts(ls1, updated, updated, env)

\* a delete that takes its snapshot after the write
deletePromptThenBackup(ls, id, env) ==
  LET current == getPrompts(ls, env).ret
      updated == filterOut(current, id)
      written == writePrompts(ls, updated, updated, env)
  IN IF written.threw THEN written
     ELSE [written EXCEPT !.ls = createBackup(written.ls, env)]

\* a delete that returns early, before the snapshot, when no record matches
deletePromptIfPresent(ls, id, env) ==
  LET current == getPrompts(ls, env).ret
      updated == filterOut(current, id)
  IN IF findIndex(current, id) = 0 THEN Returned(ls, current)
     ELSE writePrompts(createBackup(ls, env), updated, updated, env)

deletePrompt(ls, id, env) ==
  LET ls1 == createBackup(ls, env)
      current == getPrompts(ls1, env).ret
      updated == filterOut(current, id)
  IN writePrompts(ls1, updated, updated, env)

\* hasBackup: !!localStorage.getItem(BACKUP_KEY)
hasBackup(ls) == TruthyText(getItem(ls, BACKUP_KEY))

\* a restore that keeps the collection it replaces as the new snapshot
restoreFromBackupSwapping(ls, env) ==
  IF getItemThrows(env) THEN Threw(ls, "SecurityError")
  ELSE LET backup == getItem(ls, BACKUP_KEY) IN
       IF TruthyText(backup)
       THEN LET ls0 == createBackup(ls, env) IN
            IF setItemThrows(env, STORAGE_KEY) THEN Threw(ls0, "QuotaExceededError")
            ELSE LET ls1 == setItem(ls0, STORAGE_KEY, backup) IN
                 IF JSONparseThrows(backup) THEN Threw(ls1, "SyntaxError")
                 ELSE Returned(ls1, JSONparse(backup).items)
       ELSE Returned(ls, <<>>)

\* restoreFromBackup guards nothing: a refused read or write, and a backup
\* that does not parse, throw (the last after the primary was overwritten)
restoreFromBackup(ls, env) ==
  IF getItemThrows(env) THEN Threw(ls, "SecurityError")
  ELSE LET backup == getItem(ls, BACKUP_KEY) IN
       IF TruthyText(backup)
       THEN IF setItemThrows(env, STORAGE_KEY) THEN Threw(ls, "QuotaExceededError")
            ELSE LET ls1 == setItem(ls, STORAGE_KEY, backup) IN
                 IF JSONparseThrows(backup) THEN Threw(ls1, "SyntaxError")
                 ELSE Returned(ls1, JSONparse(backup).items)
       ELSE Returned(ls, <<>>)

\* exportData: JSON.stringify(getPrompts(), null, 2)
exportData(ls, env) == JSONstringify(Array(getPrompts(ls, env).ret), 2)

\* ------------------------------------------------------------------ exportAsCsv

\* For the CSV export a text is a sequence of symbols: the characters the
\* format gives a meaning to, and "x", " " and the words of the header for
\* the others. A text that is missing and an empty one are both <<>>:
\* escape does not tell them apart.
QUOTE == "\""
COMMA == ","
LF == "\n"
BOM == "U+FEFF"

headers ==
  << <<"Title">>, <<"Prompt Content">>, <<"Breakdown">>, <<"Tags">>,
     <<"Use Cases">>, <<"Source Link">>, <<"Created Date">> >>

RECURSIVE replaceQuotesIn(_, _, _)
\* the symbols str[from .. to] with each quote doubled
replaceQuotesIn(str, from, to) ==
  IF from > to THEN <<>>
  ELSE IF from = to
  THEN IF str[from] = QUOTE THEN <<QUOTE, QUOTE>> ELSE <<str[from]>>
  ELSE LET mid == (from + to) \div 2
       IN replaceQuotesIn(str, from, mid) \o replaceQuotesIn(str, mid + 1, to)

\* str.replace(/"/g, '""')
replaceQuotes(str) == replaceQuotesIn(str, 1, Len(str))

\* a field put between quotes as it is
escapeUndoubled(text) ==
  IF text = <<>> THEN <<QUOTE, QUOTE>>
  ELSE <<QUOTE>> \o text \o <<QUOTE>>

\* escape: '""' for a text that is missing or empty; otherwise the text
\* between quotes, with each quote in it doubled
escape(text) ==
  IF text = <<>> THEN <<QUOTE, QUOTE>>
  ELSE <<QUOTE>> \o replaceQuotes(text) \o <<QUOTE>>

RECURSIVE joinIn(_, _, _, _)
\* texts[from .. to], with the separator between each two of them
joinIn(texts, separator, from, to) ==
  IF from > to THEN <<>>
  ELSE IF from = to THEN texts[from]
  ELSE LET mid == (from + to) \div 2
       IN joinIn(texts, separator, from, mid) \o separator
            \o joinIn(texts, separator, mid + 1, to)

\* Array.prototype.join
join(texts, separator) == joinIn(texts, separator, 1, Len(texts))

\* new Date(createdAt).toLocaleDateString(): a text for each day
toLocaleDateString(createdAt) == <<ToString(createdAt)>>

\* the seven texts of a record's row, before they are escaped
cells(p) ==
  << p.title, p.content, p.breakdown,
     join(p.tags.items, <<COMMA, " ">>),
     IF p.useCases.array THEN join(p.useCases.items, <<LF>>) ELSE <<>>,
     p.sourceLink,
     toLocaleDateString(p.createdAt) >>

\* exportAsCsv: the marker, the header row and one row per stored record,
\* the rows joined by line feeds; p.tags.join throws on a record without
\* tags
exportAsCsv(ls, env) ==
  LET prompts == getPrompts(ls, env).ret
      rows == [k \in 1 .. Len(prompts) |->
                 join([c \in 1 .. 7 |-> escape(cells(prompts[k])[c])], <<COMMA>>)]
  IN IF \E k \in 1 .. Len(prompts) : ~prompts[k].tags.array
     THEN Threw(ls, "TypeError")
     ELSE Returned(ls, <<BOM>> \o join(<<join(headers, <<COMMA>>)>> \o rows, <<LF>>))

\* ------------------------------------------------------------------ importData

\* A Map keeps its keys in insertion order; it is modelled as the sequence of
\* its values, each of which carries its key in .id.
mapHas(m, id) == findIndex(m, id) >= 1
\* Map.prototype.set: a key that is present keeps its place
mapSet(m, p) ==
  IF mapHas(m, p.id) THEN [m EXCEPT ![findIndex(m, p.id)] = p]
  ELSE Append(m, p)

RECURSIVE newMap(_)
\* new Map(currentPrompts.map(p => [p.id, p]))
newMap(prompts) ==
  IF prompts = <<>> THEN <<>>
  ELSE mapSet(newMap(SubSeq(prompts, 1, Len(prompts) - 1)), prompts[Len(prompts)])

\* a comparator that sorts oldest first
compareUpdatedAtAscending(a, b) == a.updatedAt - b.updatedAt

\* (a, b) => b.updatedAt - a.updatedAt
compareUpdatedAt(a, b) == b.updatedAt - a.updatedAt

RECURSIVE insertSorted(_, _)
\* p goes behind every element that does not compare after it
insertSorted(sorted, p) ==
  IF sorted = <<>> THEN <<p>>
  ELSE IF compareUpdatedAt(Head(sorted), p) <= 0
       THEN <<Head(sorted)>> \o insertSorted(Tail(sorted), p)
       ELSE <<p>> \o sorted

RECURSIVE sort(_)
\* Array.prototype.sort with compareUpdatedAt: a stable sort
sort(s) ==
  IF s = <<>> THEN <<>>
  ELSE insertSorted(sort(SubSeq(s, 1, Len(s) - 1)), s[Len(s)])

\* a validation that forgets the content
isValidRawIdOnly(p) == TruthyStr(p.id)

\* parsed.filter(p => p.id && p.content)
isValidRaw(p) == TruthyStr(p.id) /\ TruthyStr(p.content)

\* a normalization that copies the entry's title and tags as they are
safePromptAsGiven(p, now) ==
  [id |-> p.id,
   title |-> p.title,
   content |-> p.content,
   breakdown |-> IF TruthyStr(p.breakdown) THEN p.breakdown ELSE "",
   tags |-> p.tags,
   useCases |-> IF p.useCases.array THEN p.useCases ELSE Array(<<>>),
   sourceLink |-> p.sourceLink,
   createdAt |-> IF TruthyNum(p.createdAt) THEN p.createdAt ELSE now,
   updatedAt |-> IF TruthyNum(p.updatedAt) THEN p.updatedAt ELSE now]

\* the normalized record built from one valid entry; now is Date.now(),
\* taken to be the same at every read during one call
safePrompt(p, now) ==
  [id |-> p.id,
   title |-> IF TruthyStr(p.title) THEN p.title ELSE "Untitled Prompt",
   content |-> p.content,
   breakdown |-> IF TruthyStr(p.breakdown) THEN p.breakdown ELSE "",
   tags |-> IF p.tags.array THEN p.tags ELSE Array(<<>>),
   useCases |-> IF p.useCases.array THEN p.useCases ELSE Array(<<>>),
   sourceLink |-> p.sourceLink,
   createdAt |-> IF TruthyNum(p.createdAt) THEN p.createdAt ELSE now,
   updatedAt |-> IF TruthyNum(p.updatedAt) THEN p.updatedAt ELSE now]

RECURSIVE mergeEntriesKeepFirst(_, _, _)
\* a merge in which an id that is present keeps its record
mergeEntriesKeepFirst(acc, validRaw, now) ==
  IF validRaw = <<>> THEN acc
  ELSE LET p == safePrompt(Head(validRaw), now)
           next == IF mapHas(acc.map, p.id)
                   THEN [map |-> acc.map, added |-> acc.added,
                         updated |-> acc.updated + 1]
                   ELSE [map |-> mapSet(acc.map, p), added |-> acc.added + 1,
                         updated |-> acc.updated]
       IN mergeEntriesKeepFirst(next, Tail(validRaw), now)

RECURSIVE mergeEntries(_, _, _)
\* validRaw.forEach(...): the map and the two counters after the entries
mergeEntries(acc, validRaw, now) ==
  IF validRaw = <<>> THEN acc
  ELSE LET p == safePrompt(Head(validRaw), now)
           next == IF mapHas(acc.map, p.id)
                   THEN [map |-> mapSet(acc.map, p), added |-> acc.added,
                         updated |-> acc.updated + 1]
                   ELSE [map |-> mapSet(acc.map, p), added |-> acc.added + 1,
                         updated |-> acc.updated]
       IN mergeEntries(next, Tail(validRaw), now)

\* an import that stamps every record it writes, carried over or imported
mergeAndStoreTouchingAll(ls, validRaw, now, env) ==
  LET ls1 == createBackup(ls, env)
      currentPrompts == getPrompts(ls1, env).ret
      promptMap == newMap(currentPrompts)
      done == mergeEntries([map |-> promptMap, added |-> 0, updated |-> 0],
                           validRaw, now)
      merged == sort([k \in 1 .. Len(done.map) |-> [done.map[k] EXCEPT !.updatedAt = now]])
      written == writePrompts(ls1, merged, merged, env)
  IN IF written.threw THEN written
     ELSE [written EXCEPT !.stats = [added |-> done.added, updated |-> done.updated]]

\* an import that replaces the stored collection by the file's records
mergeAndStoreReplacing(ls, validRaw, now, env) ==
  LET ls1 == createBackup(ls, env)
      done == mergeEntries([map |-> <<>>, added |-> 0, updated |-> 0], validRaw, now)
      merged == sort(done.map)
      written == writePrompts(ls1, merged, merged, env)
  IN IF written.threw THEN written
     ELSE [written EXCEPT !.stats = [added |-> done.added, updated |-> done.updated]]

\* importData from createBackup() on: snapshot, merge by id, sort, write
mergeAndStore(ls, validRaw, now, env) ==
  LET ls1 == createBackup(ls, env)
      currentPrompts == getPrompts(ls1, env).ret
      promptMap == newMap(currentPrompts)
      done == mergeEntries([map |-> promptMap, added |-> 0, updated |-> 0],
                           validRaw, now)
      merged == sort(done.map)
      written == writePrompts(ls1, merged, merged, env)
  IN IF written.threw THEN written
     ELSE [written EXCEPT !.stats = [added |-> done.added, updated |-> done.updated]]

\* an import that takes its snapshot before it has validated the file
importDataBackupFirst(ls, jsonString, now, env) ==
  LET ls1 == createBackup(ls, env) IN
  IF JSONparseThrows(jsonString) THEN Threw(ls1, "SyntaxError")
  ELSE LET parsed == JSONparse(jsonString) IN
    IF ~parsed.array THEN Threw(ls1, "Invalid format: not an array")
    ELSE LET validRaw == SelectSeq(parsed.items, isValidRaw) IN
      IF Len(validRaw) = 0 /\ Len(parsed.items) > 0
      THEN Threw(ls1, "No valid prompts found in file")
      ELSE mergeAndStore(ls1, validRaw, now, env)

\* importData: parse, validate, then merge and store; the catch rethrows
importData(ls, jsonString, now, env) ==
  IF JSONparseThrows(jsonString) THEN Threw(ls, "SyntaxError")
  ELSE LET parsed == JSONparse(jsonString) IN
    IF ~parsed.array THEN Threw(ls, "Invalid format: not an array")
    ELSE LET validRaw == SelectSeq(parsed.items, isValidRaw) IN
      IF Len(validRaw) = 0 /\ Len(parsed.items) > 0
      THEN Threw(ls, "No valid prompts found in file")
      ELSE mergeAndStore(ls, validRaw, now, env)

\* ------------------------------------------------------------------ inputs

\* the records a caller hands to savePrompt and savePrompts
PromptInputs == { PromptData(i, "T", "c", 1, t) : i \in Ids, t \in Times }

\* the records a bulk rewrite hands to savePrompts, all stamped with its time
RefinedInputs == { PromptData(i, "T", "c", 1, MaxTime) : i \in Ids }

uniqueIds(s) == \A i, j \in 1 .. Len(s) : i # j => s[i].id # s[j].id

\* the collections over a set of records in which no id occurs twice
Collections(records) ==
  { s \in UNION { [1 .. n -> records] : n \in 0 .. Cardinality(Ids) } : uniqueIds(s) }

\* one object of an import file; the properties it lacks read as undefined
RawEntry(id, title, content, createdAt, updatedAt) ==
  [id |-> id, title |-> title, content |-> content, breakdown |-> Undef,
   tags |-> NotArray, useCases |-> NotArray, sourceLink |-> Undef,
   createdAt |-> createdAt, updatedAt |-> updatedAt]

\* entries with every field (the objects of an exported file), entries with
\* id and content only, and entries the validation drops
FullEntries == PromptInputs
BareEntries == { RawEntry(i, Undef, "c", NoTime, NoTime) : i \in Ids }
BadEntries == { RawEntry(Undef, "T", "c", 1, 1), RawEntry("a", "T", "", 1, 1) }
ImportEntries == FullEntries \cup BareEntries \cup BadEntries

\* the texts of import files: one that is no JSON, one that is JSON but no
\* array, and the arrays of at most n entries
ImportTexts(entries, n) ==
  { Garbage, JSONstringify(NotArray, 2) }
    \cup { JSONstringify(Array(items), 2) :
             items \in UNION { [1 .. k -> entries] : k \in 0 .. n } }

\* the texts the primary key may hold
StoredTexts ==
  { Null, Garbage } \cup { JSONstringify(Array(c), 0) : c \in Collections(PromptInputs) }

\* ------------------------------------------------------------------ the editor

\* initialData of an editor opened for a new prompt: null, every property of
\* which reads as undefined through `initialData?.`
NoPrompt ==
  [id |-> Undef, title |-> "", content |-> "", breakdown |-> "",
   tags |-> Array(<<>>), useCases |-> NotArray, sourceLink |-> Undef,
   createdAt |-> NoTime, updatedAt |-> NoTime]

\* the form as the editor's effect fills it: from initialData, or empty
formOf(initialData) ==
  [title |-> initialData.title,
   content |-> initialData.content,
   breakdown |-> initialData.breakdown,
   sourceLink |-> IF TruthyStr(initialData.sourceLink) THEN initialData.sourceLink ELSE "",
   tags |-> IF initialData.tags.array THEN initialData.tags ELSE Array(<<>>)]

\* !text.trim()
Blank(text) == text = ""

\* a record that is stamped anew at every save
newDataStamped(initialData, form, uuid, now) ==
  [id |-> IF TruthyStr(initialData.id) THEN initialData.id ELSE uuid,
   title |-> form.title, content |-> form.content, breakdown |-> form.breakdown,
   tags |-> form.tags, useCases |-> NotArray, sourceLink |-> form.sourceLink,
   createdAt |-> now, updatedAt |-> now]

\* newData of handleSave: the form's fields, the id and the createdAt of
\* initialData where it has them, and no useCases
newData(initialData, form, uuid, now) ==
  [id |-> IF TruthyStr(initialData.id) THEN initialData.id ELSE uuid,
   title |-> form.title, content |-> form.content, breakdown |-> form.breakdown,
   tags |-> form.tags, useCases |-> NotArray, sourceLink |-> form.sourceLink,
   createdAt |-> IF TruthyNum(initialData.createdAt) THEN initialData.createdAt ELSE now,
   updatedAt |-> now]

\* a save that does not look at the form
handleSaveUnchecked(initialData, form, uuid, now) ==
  [saved |-> TRUE, newData |-> newData(initialData, form, uuid, now)]

\* PromptEditor.handleSave: nothing is saved while title or content is blank
handleSave(initialData, form, uuid, now) ==
  IF Blank(form.title) \/ Blank(form.content)
  THEN [saved |-> FALSE, newData |-> NoPrompt]
  ELSE [saved |-> TRUE, newData |-> newData(initialData, form, uuid, now)]

\* ------------------------------------------------------------------ state

VARIABLES
  localStorage,   \* the text under each of the two keys
  last,           \* the last call of the service: which, what the browser
                  \* refused during it, what it found, how it ended
  io,             \* that call's arguments, the storage it ran on and what it
                  \* returned (kept by the single-call specification only)
  prompts,        \* App's state `prompts`: what the view renders
  refine,         \* App's isRefining and the activation of handleRefineLibrary
  clock,          \* Date.now()
  event,          \* the handler of App that ran last, and how it ended
  editor          \* PromptEditor: its props isOpen and initialData, its form,
                  \* isAnalyzing, and the prompt handleAnalyze was started for

vars == <<localStorage, last, io, prompts, refine, clock, event, editor>>

\* the state of App (the two service specifications leave it as it starts)
appVars == <<prompts, refine, clock, event, editor>>

\* PromptEditor as App first renders it: isOpen false, initialData null, the
\* form empty, no analysis running
EditorClosed ==
  [isOpen |-> FALSE, initialData |-> NoPrompt, form |-> formOf(NoPrompt),
   isAnalyzing |-> FALSE, analysed |-> NoPrompt]

\* handleRefineLibrary is not running
RefineIdle == [isRefining |-> FALSE, pending |-> FALSE, i |-> 0, updatedList |-> <<>>]

NoEvent ==
  [handler |-> "none", id |-> Undef, file |-> Null, ok |-> TRUE, threw |-> FALSE]

\* App as it is constructed: useState([]), useState(false)
AppInit ==
  /\ prompts = Array(<<>>)
  /\ refine = RefineIdle
  /\ clock = 1
  /\ event = NoEvent
  /\ editor = EditorClosed

NoCall ==
  [op |-> "none", env |-> {}, found |-> [primary |-> FALSE, backup |-> FALSE],
   threw |-> FALSE, error |-> ""]
NoIO == [kept |-> FALSE]

\* whether each key held a text when the call began
Found(ls) ==
  [primary |-> TruthyText(getItem(ls, STORAGE_KEY)),
   backup |-> TruthyText(getItem(ls, BACKUP_KEY))]

Call(op, env, out) ==
  [op |-> op, env |-> env, found |-> Found(localStorage),
   threw |-> out.threw, error |-> out.error]

IO(arg, now, out) ==
  [kept |-> TRUE, arg |-> arg, now |-> now, pre |-> localStorage,
   ret |-> out.ret, stats |-> out.stats]

\* a call in a running library: the storage is what the calls so far made it
Apply(op, env, out) ==
  /\ localStorage' = out.ls
  /\ last' = Call(op, env, out)
  /\ io' = NoIO
  /\ UNCHANGED appVars

\* a single call, recorded in full
ApplyOnce(op, arg, now, env, out) ==
  /\ localStorage' = out.ls
  /\ last' = Call(op, env, out)
  /\ io' = IO(arg, now, out)
  /\ UNCHANGED appVars

\* ------------------------------------------------------------------ the library in use

Init ==
  /\ localStorage = [k \in {STORAGE_KEY, BACKUP_KEY} |-> Null]
  /\ last = NoCall
  /\ io = NoIO
  /\ AppInit

SavePrompt ==
  \E prompt \in PromptInputs, env \in Envs :
    Apply("savePrompt", env, savePrompt(localStorage, prompt, env))

SavePrompts ==
  \E collection \in Collections(RefinedInputs), env \in Envs :
    Apply("savePrompts", env, savePrompts(localStorage, collection, env))

DeletePrompt ==
  \E id \in Ids, env \in Envs :
    Apply("deletePrompt", env, deletePrompt(localStorage, id, env))

RestoreFromBackup ==
  \E env \in Envs :
    Apply("restoreFromBackup", env, restoreFromBackup(localStorage, env))

GetPrompts ==
  \E env \in Envs :
    Apply("getPrompts", env, getPrompts(localStorage, env))

ImportData ==
  \E jsonString \in ImportTexts(FullEntries \cup BadEntries, 1), now \in {MaxTime},
     env \in Envs :
    Apply("importData", env, importData(localStorage, jsonString, now, env))

Next ==
  \/ SavePrompt
  \/ SavePrompts
  \/ DeletePrompt
  \/ RestoreFromBackup
  \/ GetPrompts
  \/ ImportData

Spec == Init /\ [][Next]_vars

\* ------------------------------------------------------------------ a single call

\* a snapshot that an earlier mutation left
EarlierText == JSONstringify(Array(<<PromptData("a", "T", "c", 1, 1)>>), 0)

\* The storage a call may find: nothing, a text that does not parse (left by
\* another writer of the key), or a collection; and as backup nothing, the
\* same text (which is how restoreFromBackup leaves the two keys) or an
\* earlier one.
Storages ==
  { [k \in {STORAGE_KEY, BACKUP_KEY} |-> IF k = STORAGE_KEY THEN primary ELSE backup] :
      <<primary, backup>> \in
        { <<x, y>> \in StoredTexts \X StoredTexts : y \in {Null, x, EarlierText} } }

InitOnce ==
  /\ localStorage \in Storages
  /\ last = NoCall
  /\ io = NoIO
  /\ AppInit

CallSavePrompt ==
  /\ last.op = "none"
  /\\E prompt \in PromptInputs, env \in Envs :
       ApplyOnce("savePrompt", prompt, NoTime, env, savePrompt(localStorage, prompt, env))

CallSavePrompts ==
  /\ last.op = "none"
  /\\E collection \in Collections(PromptInputs), env \in Envs :
       ApplyOnce("savePrompts", collection, NoTime, env,
                 savePrompts(localStorage, collection, env))

CallDeletePrompt ==
  /\ last.op = "none"
  /\\E id \in Ids, env \in Envs :
       ApplyOnce("deletePrompt", id, NoTime, env, deletePrompt(localStorage, id, env))

CallRestoreFromBackup ==
  /\ last.op = "none"
  /\\E env \in Envs :
       ApplyOnce("restoreFromBackup", "", NoTime, env, restoreFromBackup(localStorage, env))

CallGetPrompts ==
  /\ last.op = "none"
  /\\E env \in Envs :
       ApplyOnce("getPrompts", "", NoTime, env, getPrompts(localStorage, env))

CallImportData ==
  /\ last.op = "none"
  /\\E jsonString \in ImportTexts(ImportEntries, MaxFile), now \in Times, env \in Envs :
       ApplyOnce("importData", jsonString, now, env,
                 importData(localStorage, jsonString, now, env))

NextOnce ==
  \/ CallSavePrompt
  \/ CallSavePrompts
  \/ CallDeletePrompt
  \/ CallRestoreFromBackup
  \/ CallGetPrompts
  \/ CallImportData

SpecOnce == InitOnce /\ [][NextOnce]_vars

\* ------------------------------------------------------------------ the refine

\* what analyzePromptContent resolves to: the title, breakdown and tags its
\* response schema asks for, and no useCases
Analysis ==
  [title |-> "R", breakdown |-> "B", tags |-> Array(<<"t">>), useCases |-> NotArray]

\* { ...p, title, breakdown, tags, useCases, updatedAt: Date.now() }
refined(p, analysis, now) ==
  [p EXCEPT !.title = analysis.title, !.breakdown = analysis.breakdown,
            !.tags = analysis.tags, !.useCases = analysis.useCases,
            !.updatedAt = now]

\* setPrompts on the mounted App; on an unmounted one it does nothing
setPrompts(ui, list) == IF ui.array THEN Array(list) ELSE ui

\* the function has ended without reaching setIsRefining(false)
RefineDead == [isRefining |-> TRUE, pending |-> FALSE, i |-> 0, updatedList |-> <<>>]

\* what follows the loop: savePrompts, setPrompts, setIsRefining(false)
afterLoop(ls, list, ui, env) ==
  LET out == savePrompts(ls, list, env)
  IN IF out.threw
     THEN [ls |-> out.ls, refine |-> RefineDead, prompts |-> ui, threw |-> TRUE]
     ELSE [ls |-> out.ls, refine |-> RefineIdle, prompts |-> setPrompts(ui, list),
           threw |-> FALSE]

\* a loop that persists the list after every item it has refined
analysisSettledSavingEach(ls, rf, ui, ok, now, env) ==
  LET p == rf.updatedList[rf.i]
      list == IF ok THEN [rf.updatedList EXCEPT ![rf.i] = refined(p, Analysis, now)]
              ELSE rf.updatedList
      ui1 == IF ok THEN setPrompts(ui, list) ELSE ui
      out == IF ok THEN savePrompts(ls, list, env) ELSE Returned(ls, <<>>)
  IN IF out.threw
     THEN [ls |-> out.ls, refine |-> RefineDead, prompts |-> ui1, threw |-> TRUE]
     ELSE IF rf.i < Len(list)
     THEN [ls |-> out.ls, refine |-> [rf EXCEPT !.i = @ + 1, !.updatedList = list],
           prompts |-> ui1, threw |-> FALSE]
     ELSE afterLoop(out.ls, list, ui1, env)

\* a loop that a failed analysis ends
analysisSettledStoppingAtFailure(ls, rf, ui, ok, now, env) ==
  LET p == rf.updatedList[rf.i]
      list == IF ok THEN [rf.updatedList EXCEPT ![rf.i] = refined(p, Analysis, now)]
              ELSE rf.updatedList
      ui1 == IF ok THEN setPrompts(ui, list) ELSE ui
  IN IF ok /\ rf.i < Len(list)
     THEN [ls |-> ls, refine |-> [rf EXCEPT !.i = @ + 1, !.updatedList = list],
           prompts |-> ui1, threw |-> FALSE]
     ELSE afterLoop(ls, list, ui1, env)

\* handleRefineLibrary from the point where the analysis of item i settles
\* (ok: it resolved; otherwise it rejected and the catch logs) up to the next
\* await, or through savePrompts to the end after the last item
analysisSettled(ls, rf, ui, ok, now, env) ==
  LET p == rf.updatedList[rf.i]
      list == IF ok THEN [rf.updatedList EXCEPT ![rf.i] = refined(p, Analysis, now)]
              ELSE rf.updatedList
      ui1 == IF ok THEN setPrompts(ui, list) ELSE ui
  IN IF rf.i < Len(list)
     THEN [ls |-> ls, refine |-> [rf EXCEPT !.i = @ + 1, !.updatedList = list],
           prompts |-> ui1, threw |-> FALSE]
     ELSE afterLoop(ls, list, ui1, env)

\* ------------------------------------------------------------------ App

\* the entries of the files a user imports: full records stamped by another
\* installation, and one without content
AppEntries ==
  { PromptData(i, "T", "c", MaxClock, MaxClock) : i \in Ids }
    \cup { RawEntry("a", "T", "", 1, 1) }

\* the files: those of at most one entry, and one whose first entry is
\* dropped and whose second is kept
AppFiles ==
  ImportTexts(AppEntries, 1)
    \cup { JSONstringify(Array(<<RawEntry("a", "T", "", 1, 1),
                                  PromptData("b", "T", "c", MaxClock, MaxClock)>>), 2) }

Event(handler, id, file, ok, threw) ==
  [handler |-> handler, id |-> id, file |-> file, ok |-> ok, threw |-> threw]

\* what importData returned, which handleFileChange hands to setPrompts: an
\* object with prompts and stats, and no array
ImportResult(out) == [array |-> FALSE, items |-> out.ret, stats |-> out.stats]

range(seq) == { seq[k] : k \in 1 .. Len(seq) }

\* crypto.randomUUID(): an id that no record in sight has
FreshIds ==
  Ids \ UNION { { r.id : r \in range(list) } :
                 list \in { getPrompts(localStorage, {}).ret,
                            IF getItem(localStorage, BACKUP_KEY).kind = "json"
                            THEN getItem(localStorage, BACKUP_KEY).val.items ELSE <<>>,
                            prompts.items,
                            refine.updatedList } }

\* One step of App: a handler, or the continuation of one after its await.
\* No two steps are taken within the same millisecond. The service is
\* called by App only, and its call record stays empty.
AppStep(ls, ui, rf, ev) ==
  /\ clock < MaxClock
  /\ localStorage' = ls
  /\ prompts' = ui
  /\ refine' = rf
  /\ event' = ev
  /\ clock' = clock + 1
  /\ UNCHANGED <<last, io, editor>>

\* the editor, opened for a new prompt or for one of those rendered, is
\* saved with a content (blank, when the user has cleared it):
\* PromptEditor.handleSave, and through onSave App.handleSavePrompt
HandleSavePrompt ==
  /\ prompts.array
  /\ \E initialData \in {NoPrompt} \cup range(prompts.items),
        content \in {"c", ""}, env \in Envs :
       \E uuid \in IF initialData = NoPrompt THEN FreshIds ELSE {Undef} :
         LET form == [formOf(initialData) EXCEPT
                        !.title = IF initialData = NoPrompt THEN "T" ELSE @,
                        !.content = content]
             data == handleSave(initialData, form, uuid, clock)
             out == savePrompt(localStorage, data.newData, env)
         IN IF ~data.saved
            THEN AppStep(localStorage, prompts, refine,
                         Event("handleSave", initialData.id, Null, FALSE, FALSE))
            ELSE AppStep(out.ls,
                         IF out.threw THEN prompts ELSE Array(out.ret),
                         refine,
                         Event("handleSave", data.newData.id, Null, TRUE, out.threw))

\* handleDeletePrompt, confirmed, on one of the prompts rendered
HandleDeletePrompt ==
  /\ prompts.array
  /\ \E p \in range(prompts.items), env \in Envs :
       LET out == deletePrompt(localStorage, p.id, env)
       IN AppStep(out.ls, IF out.threw THEN prompts ELSE Array(out.ret), refine,
                  Event("handleDeletePrompt", p.id, Null, TRUE, out.threw))

\* handleRefineLibrary, confirmed, up to its first await; the button is
\* rendered while there are prompts and disabled while isRefining
HandleRefineLibrary ==
  /\ prompts.array
  /\ Len(prompts.items) > 0
  /\ ~refine.isRefining
  /\ AppStep(localStorage, prompts,
             [isRefining |-> TRUE, pending |-> TRUE, i |-> 1,
              updatedList |-> prompts.items],
             Event("handleRefineLibrary", Undef, Null, TRUE, FALSE))

\* the analysis that handleRefineLibrary awaits settles
AnalysisSettled ==
  /\ refine.pending
  /\ \E ok \in BOOLEAN, env \in Envs :
       LET next == analysisSettled(localStorage, refine, prompts, ok, clock, env)
       IN AppStep(next.ls, next.prompts, next.refine,
                  Event("analysisSettled", refine.updatedList[refine.i].id, Null,
                        ok, next.threw))

\* handleFileChange with a file, which may be what handleExport wrote of the
\* collection as it is stored now: importData, and on success setPrompts
\* with what it returned
HandleFileChange ==
  /\ prompts.array
  /\ \E jsonString \in AppFiles \cup {exportData(localStorage, {})}, env \in Envs :
       LET out == importData(localStorage, jsonString, clock, env)
       IN AppStep(out.ls, IF out.threw THEN prompts ELSE ImportResult(out), refine,
                  Event("handleFileChange", Undef, jsonString,
                        out.error \notin { "SyntaxError", "Invalid format: not an array",
                                           "No valid prompts found in file" },
                        out.threw))

\* handleRestoreBackup, confirmed
HandleRestoreBackup ==
  /\ prompts.array
  /\ \E env \in Envs :
       LET out == restoreFromBackup(localStorage, env)
       IN AppStep(out.ls,
                  IF ~out.threw /\ Len(out.ret) > 0 THEN Array(out.ret) ELSE prompts,
                  refine,
                  Event("handleRestoreBackup", Undef, Null, TRUE, out.threw))

\* the page is loaded again: App is constructed anew and its effect reads
\* the stored collection; what ran in the page before is gone
Mount ==
  /\ clock < MaxClock
  /\ \E env \in Envs :
    AppStep(localStorage, Array(getPrompts(localStorage, env).ret), RefineIdle,
            Event("mount", Undef, Null, TRUE, FALSE))

NextApp ==
  \/ HandleSavePrompt
  \/ HandleDeletePrompt
  \/ HandleRefineLibrary
  \/ AnalysisSettled
  \/ HandleFileChange
  \/ HandleRestoreBackup
  \/ Mount

SpecApp == Init /\ [][NextApp]_vars

\* ------------------------------------------------------------------ PromptEditor

\* setTitle(result.title); setBreakdown(result.breakdown); setTags(result.tags)
applyResult(form, result) ==
  [form EXCEPT !.title = result.title, !.breakdown = result.breakdown,
               !.tags = result.tags]

\* One step of the editor that leaves the store alone. The component stays
\* mounted while it is closed, and keeps its state.
EditorStep(ed, ev) ==
  /\ editor' = ed
  /\ event' = ev
  /\ UNCHANGED <<localStorage, last, io, prompts, refine, clock>>

\* the effect on [initialData, isOpen]: it fills the form from initialData
\* whenever one of the two props has changed
rendered(isOpen, initialData) ==
  IF isOpen # editor.isOpen \/ initialData # editor.initialData
  THEN [editor EXCEPT !.isOpen = isOpen, !.initialData = initialData,
                      !.form = formOf(initialData)]
  ELSE editor

\* openNewPrompt: the editor covers the page while it is open
OpenNewPrompt ==
  /\ ~editor.isOpen
  /\ EditorStep(rendered(TRUE, NoPrompt),
                Event("openNewPrompt", Undef, Null, TRUE, FALSE))

\* openEditPrompt on one of the prompts rendered
OpenEditPrompt ==
  /\ ~editor.isOpen
  /\ \E p \in range(prompts.items) :
       EditorStep(rendered(TRUE, p), Event("openEditPrompt", p.id, Null, TRUE, FALSE))

\* onClose, from the X or the Cancel button: setIsEditorOpen(false)
OnClose ==
  /\ editor.isOpen
  /\ EditorStep(rendered(FALSE, editor.initialData),
                Event("onClose", editor.initialData.id, Null, TRUE, FALSE))

\* the user types a title, or clears it
SetTitle ==
  /\ editor.isOpen
  /\ \E title \in {"", "T"} :
       EditorStep([editor EXCEPT !.form.title = title],
                  Event("setTitle", editor.initialData.id, Null, TRUE, FALSE))

\* the user types a content, or clears it
SetContent ==
  /\ editor.isOpen
  /\ \E content \in {"", "c"} :
       EditorStep([editor EXCEPT !.form.content = content],
                  Event("setContent", editor.initialData.id, Null, TRUE, FALSE))

\* handleAnalyze up to its await; the button is disabled while isAnalyzing
\* and while the content is blank
HandleAnalyze ==
  /\ editor.isOpen
  /\ ~editor.isAnalyzing
  /\ ~Blank(editor.form.content)
  /\ EditorStep([editor EXCEPT !.isAnalyzing = TRUE, !.analysed = editor.initialData],
                Event("handleAnalyze", editor.initialData.id, Null, TRUE, FALSE))

\* the analysis that handleAnalyze awaits settles: the result is set into
\* the form (a rejection alerts), and finally isAnalyzing is reset
EditorAnalysisSettled ==
  /\ editor.isAnalyzing
  /\ \E ok \in BOOLEAN :
       EditorStep([editor EXCEPT
                     !.form = IF ok THEN applyResult(@, Analysis) ELSE @,
                     !.isAnalyzing = FALSE],
                  Event("editorAnalysisSettled", editor.analysed.id, Null, ok, FALSE))

\* PromptEditor.handleSave: onSave(newData), which is App.handleSavePrompt,
\* and then onClose()
EditorSave ==
  /\ editor.isOpen
  /\ clock <= MaxSaves
  /\ \E env \in Envs :
       \E uuid \in IF editor.initialData = NoPrompt THEN FreshIds ELSE {Undef} :
         LET data == handleSave(editor.initialData, editor.form, uuid, clock)
             out == savePrompt(localStorage, data.newData, env)
         IN IF ~data.saved
            THEN /\ event' = Event("handleSave", editor.initialData.id, Null, FALSE, FALSE)
                 /\ UNCHANGED <<localStorage, prompts, editor, clock>>
            ELSE /\ localStorage' = out.ls
                 /\ prompts' = IF out.threw THEN prompts ELSE Array(out.ret)
                 /\ editor' = IF out.threw THEN editor
                               ELSE rendered(FALSE, editor.initialData)
                 /\ event' = Event("handleSave", data.newData.id, Null, TRUE, out.threw)
                 /\ clock' = clock + 1
  /\ UNCHANGED <<last, io, refine>>

NextEditor ==
  \/ OpenNewPrompt
  \/ OpenEditPrompt
  \/ OnClose
  \/ SetTitle
  \/ SetContent
  \/ HandleAnalyze
  \/ EditorAnalysisSettled
  \/ EditorSave

\* the editor in use, from the empty library
SpecEditor == Init /\ [][NextEditor]_vars

\* ------------------------------------------------------------------ one CSV export

CsvChars == {"x", QUOTE, COMMA, LF}

\* the texts of at most MaxStr symbols
CsvTexts == UNION { [1 .. n -> CsvChars] : n \in 0 .. MaxStr }

\* the records exported: any text as breakdown, with and without quotes in
\* the title, tags that hold a comma, use cases, a link
CsvRecords ==
  { [id |-> "a", title |-> title, content |-> <<"x">>, breakdown |-> breakdown,
     tags |-> Array(tags), useCases |-> useCases, sourceLink |-> sourceLink,
     createdAt |-> 1, updatedAt |-> 1] :
      title \in { <<"x">>, <<"x", QUOTE>> },
      breakdown \in CsvTexts,
      tags \in { <<>>, << <<"x">> >>, << <<"x", COMMA, "x">> >>,
                 << <<"x", COMMA, "x">>, <<"x">> >> },
      useCases \in { NotArray, Array(<< <<"x">> >>), Array(<< <<"x">>, <<QUOTE, "x">> >>) },
      sourceLink \in { <<>>, <<"x">> } }

\* a second record, for the collections of two
CsvSecond ==
  [id |-> "b", title |-> <<"x">>, content |-> <<"x", LF, "x">>, breakdown |-> <<>>,
   tags |-> Array(<<>>), useCases |-> Array(<<>>), sourceLink |-> <<>>,
   createdAt |-> 2, updatedAt |-> 2]

CsvCollections ==
  { <<>> } \cup { <<r>> : r \in CsvRecords } \cup { <<r, CsvSecond>> : r \in CsvRecords }

InitCsv ==
  /\ \E collection \in CsvCollections :
       localStorage = [k \in {STORAGE_KEY, BACKUP_KEY} |->
                         IF k = STORAGE_KEY THEN JSONstringify(Array(collection), 0)
                         ELSE Null]
  /\ last = NoCall
  /\ io = NoIO
  /\ AppInit

CallExportAsCsv ==
  /\ last.op = "none"
  /\ \E env \in Envs :
       ApplyOnce("exportAsCsv", Null, NoTime, env, exportAsCsv(localStorage, env))

NextCsv == CallExportAsCsv

SpecCsv == InitCsv /\ [][NextCsv]_vars

\* ------------------------------------------------------------------ properties

primary(ls) == getItem(ls, STORAGE_KEY)
backup(ls) == getItem(ls, BACKUP_KEY)
\* what getPrompts() returns on a storage that can be read
stored(ls) == getPrompts(ls, {}).ret

ValidationErrors ==
  { "SyntaxError", "Invalid format: not an array", "No valid prompts found in file" }

\* the call was a mutating operation: savePrompt, savePrompts, deletePrompt,
\* or an importData that passed its validation
Mutated(call) ==
  \/ call.op \in {"savePrompt", "savePrompts", "deletePrompt"}
  \/ call.op = "importData" /\ call.error \notin ValidationErrors

\* createBackup could store its snapshot during the call
SnapshotAccepted(call) == call.env \cap {"getItem", BACKUP_KEY} = {}

\* restoreFromBackup() on ls returns the collection and leaves it stored
RestoreYields(ls, collection) ==
  LET r == restoreFromBackup(ls, {})
  IN /\ ~r.threw
     /\ r.ret = collection
     /\ stored(r.ls) = collection

\* C1, as stated: after every mutating operation that completes, from any
\* reachable state (the empty storage included), restoreFromBackup() called
\* next returns, and leaves stored, the collection getPrompts() returned
\* before the operation.
C1_RestoreYieldsPreMutation ==
  [][ (Mutated(last') /\ ~last'.threw)
        => RestoreYields(localStorage', stored(localStorage)) ]_vars

\* C1, amended: that holds when a primary blob was stored before the
\* operation and the storage accepted the snapshot. After a mutation of an
\* empty storage there is no snapshot: restoreFromBackup() returns the empty
\* sequence and leaves the storage as the mutation wrote it.
C1_RestoreUndoesSnapshottedMutation ==
  [][ (Mutated(last') /\ ~last'.threw)
        => /\ (TruthyText(primary(localStorage)) /\ SnapshotAccepted(last'))
                => RestoreYields(localStorage', stored(localStorage))
           /\ ~TruthyText(primary(localStorage))
                => LET r == restoreFromBackup(localStorage', {})
                   IN ~r.threw /\ r.ret = <<>> /\ r.ls = localStorage' ]_vars

\* a completed mutation of a stored collection, snapshot accepted, which
\* restoreFromBackup() would undo to a collection that is not empty
C1_Witness ==
  /\ Mutated(last) /\ ~last.threw
  /\ last.found.primary /\ SnapshotAccepted(last)
  /\ backup(localStorage) # primary(localStorage)
  /\ restoreFromBackup(localStorage, {}).ret # <<>>

\* C2, as stated: after a mutating operation the backup slot holds the
\* primary blob as it was immediately before that operation, never an older
\* state.
C2_BackupIsPreMutationPrimary ==
  [][ Mutated(last') => backup(localStorage') = primary(localStorage) ]_vars

\* C2, amended: a mutating operation whose snapshot the storage accepts
\* leaves in the backup slot the primary blob as it was immediately before
\* it; every other call (a mutating operation whose snapshot is refused, a
\* failed import, a read, a restore) leaves the backup slot as it was.
C2_BackupIsLastAcceptedSnapshot ==
  [][ IF Mutated(last') /\ SnapshotAccepted(last')
      THEN backup(localStorage') = primary(localStorage)
      ELSE backup(localStorage') = backup(localStorage) ]_vars

\* a mutating operation has replaced an earlier snapshot by the blob it found
C2_Witness ==
  /\ Mutated(last) /\ ~last.threw /\ SnapshotAccepted(last)
  /\ last.found.primary /\ last.found.backup
  /\ backup(localStorage) # primary(localStorage)

\* C3: savePrompt(record) with an id no stored record has returns and
\* persists the record followed by the old collection in its old order, one
\* longer than the old collection.
C3_SaveNewIdPrepends ==
  (last.op = "savePrompt" /\ ~last.threw)
    => LET old == stored(io.pre) IN
       (\A k \in 1 .. Len(old) : old[k].id # io.arg.id)
         => /\ Len(io.ret) = Len(old) + 1
            /\ io.ret[1] = io.arg
            /\ \A k \in 1 .. Len(old) : io.ret[k + 1] = old[k]
            /\ TruthyText(primary(localStorage))
            /\ stored(localStorage) = io.ret

\* a record with a new id was saved into a collection that was not empty
C3_Witness ==
  /\ last.op = "savePrompt" /\ ~last.threw
  /\ stored(io.pre) # <<>>
  /\ \A k \in 1 .. Len(stored(io.pre)) : stored(io.pre)[k].id # io.arg.id
  /\ Len(io.ret) = 2

\* C4: savePrompt(record) with an id a stored record has returns and
\* persists a collection of the same length, with the record at that id's
\* position and every other position unchanged.
C4_SaveExistingIdReplacesInPlace ==
  (last.op = "savePrompt" /\ ~last.threw)
    => LET old == stored(io.pre) IN
       \A k \in 1 .. Len(old) :
         (old[k].id = io.arg.id /\ \A j \in 1 .. k - 1 : old[j].id # io.arg.id)
           => /\ Len(io.ret) = Len(old)
              /\ io.ret[k] = io.arg
              /\ \A j \in 1 .. Len(old) : j # k => io.ret[j] = old[j]
              /\ stored(localStorage) = io.ret

\* a record that differs from the stored one of its id replaced it at the
\* second position
C4_Witness ==
  /\ last.op = "savePrompt" /\ ~last.threw
  /\ Len(stored(io.pre)) = 2
  /\ stored(io.pre)[2].id = io.arg.id
  /\ stored(io.pre)[2] # io.arg
  /\ io.ret[2] = io.arg

\* C5: deletePrompt(id) returns and persists the stored collection without
\* the records of that id, the others in their old order; when no record has
\* the id the result is the stored collection, and the snapshot is taken all
\* the same (the backup slot holds the blob found, wherever createBackup
\* stores one: a primary blob exists and the storage accepts the write).
C5_DeleteFilters ==
  (last.op = "deletePrompt" /\ ~last.threw)
    => LET old == stored(io.pre)
           hits == { k \in 1 .. Len(old) : old[k].id = io.arg }
       IN /\ \A k \in 1 .. Len(io.ret) : io.ret[k].id # io.arg
          /\ Len(io.ret) = Len(old) - Cardinality(hits)
          /\ hits = {} => io.ret = old
          /\ \A k \in hits :
                hits = {k} => io.ret = SubSeq(old, 1, k - 1) \o SubSeq(old, k + 1, Len(old))
          /\ stored(localStorage) = io.ret
          /\ (last.found.primary /\ SnapshotAccepted(last))
                => backup(localStorage) = primary(io.pre)

\* a delete of an id no record has: the collection is returned as it was and
\* the blob found, which was not in the backup slot before, is there now
C5_Witness ==
  /\ last.op = "deletePrompt" /\ ~last.threw
  /\ stored(io.pre) # <<>>
  /\ \A k \in 1 .. Len(stored(io.pre)) : stored(io.pre)[k].id # io.arg
  /\ io.ret = stored(io.pre)
  /\ backup(io.pre) # primary(io.pre)
  /\ backup(localStorage) = primary(io.pre)

\* C6: getPrompts() never throws, returns the stored collection when the
\* primary blob is there and parses, the empty sequence when it is absent,
\* does not parse or cannot be read, and changes neither slot.
C6_GetPromptsNeverRaises ==
  last.op = "getPrompts"
    => /\ ~last.threw
       /\ localStorage = io.pre
       /\ io.ret = IF /\ "getItem" \notin last.env
                       /\ primary(io.pre).kind = "json"
                    THEN primary(io.pre).val.items
                    ELSE <<>>

\* getPrompts() has returned the empty sequence for a blob that does not parse
C6_Witness ==
  /\ last.op = "getPrompts" /\ ~last.threw
  /\ primary(io.pre) = Garbage
  /\ io.ret = <<>>

\* the file is no JSON, is no array, or is an array that is not empty and
\* has no entry with both id and content
FailsValidation(text) ==
  \/ text.kind # "json"
  \/ ~text.val.array
  \/ /\ Len(text.val.items) > 0
     /\ \A i \in 1 .. Len(text.val.items) :
          ~(TruthyStr(text.val.items[i].id) /\ TruthyStr(text.val.items[i].content))

\* C7: an importData that fails on its file throws and leaves the primary
\* and the backup slot as they were.
C7_FailedImportChangesNothing ==
  (last.op = "importData" /\ FailsValidation(io.arg))
    => /\ last.threw
       /\ last.error \in ValidationErrors
       /\ localStorage = io.pre

\* an import has failed on a storage whose backup slot did not hold the
\* primary blob (a snapshot would have shown)
C7_Witness ==
  /\ last.op = "importData" /\ last.threw
  /\ FailsValidation(io.arg)
  /\ last.found.primary
  /\ last.env = {}
  /\ backup(io.pre) # primary(io.pre)

\* the places of a file's entries that have both an id and a content
ValidAt(items) ==
  { i \in 1 .. Len(items) : TruthyStr(items[i].id) /\ TruthyStr(items[i].content) }

idsOf(s) == { s[k].id : k \in 1 .. Len(s) }

\* C8: importData drops the entries without id or content and does not
\* report them; it fails with the validation error exactly when the array
\* is not empty and no entry survives; otherwise (the empty array included)
\* the file is accepted, and the call returns unless the storage refuses
\* the write.
C8_ImportValidation ==
  (last.op = "importData" /\ io.arg.kind = "json" /\ io.arg.val.array)
    => LET items == io.arg.val.items
           valid == ValidAt(items)
           noneSurvives == Len(items) > 0 /\ valid = {}
       IN /\ (last.threw /\ last.error = "No valid prompts found in file") <=> noneSurvives
          /\ ~noneSurvives
               => /\ last.error \notin ValidationErrors
                  /\ last.threw <=> STORAGE_KEY \in last.env
          /\ ~last.threw
               => /\ io.stats.added + io.stats.updated = Cardinality(valid)
                  /\ \A k \in 1 .. Len(io.ret) :
                       \/ \E j \in 1 .. Len(stored(io.pre)) : io.ret[k] = stored(io.pre)[j]
                       \/ \E i \in valid : io.ret[k] = safePrompt(items[i], io.now)
                  /\ \A k \in 1 .. Len(io.ret) :
                       TruthyStr(io.ret[k].id) /\ TruthyStr(io.ret[k].content)

\* an import has returned for a file with one entry that was dropped and one
\* that was kept
C8_Witness ==
  /\ last.op = "importData" /\ ~last.threw
  /\ Len(io.arg.val.items) = 2
  /\ Cardinality(ValidAt(io.arg.val.items)) = 1
  /\ io.stats.added + io.stats.updated = 1

\* C9: importData merges by id, the last write winning: a valid entry whose
\* id is already in the mapping (from the stored collection or from an
\* earlier entry of the file) counts as updated and replaces the record,
\* any other counts as added; added + updated is the number of valid
\* entries, and the result has one record per id, the one written last.
C9_ImportLastWriteWins ==
  (last.op = "importData" /\ ~last.threw)
    => LET items == io.arg.val.items
           valid == ValidAt(items)
           old == stored(io.pre)
           lastAt(id) == CHOOSE i \in valid :
                           /\ items[i].id = id
                           /\ \A j \in valid : items[j].id = id => j <= i
           importedIds == { items[i].id : i \in valid }
           firstOfNew == { i \in valid :
                             /\ items[i].id \notin idsOf(old)
                             /\ \A j \in valid : j < i => items[j].id # items[i].id }
       IN /\ io.stats.added = Cardinality(firstOfNew)
          /\ io.stats.updated = Cardinality(valid) - Cardinality(firstOfNew)
          /\ idsOf(io.ret) = idsOf(old) \cup importedIds
          /\ uniqueIds(io.ret)
          /\ \A k \in 1 .. Len(io.ret) :
               IF io.ret[k].id \in importedIds
               THEN io.ret[k] = safePrompt(items[lastAt(io.ret[k].id)], io.now)
               ELSE \E j \in 1 .. Len(old) : io.ret[k] = old[j]
          /\ stored(localStorage) = io.ret

\* an import whose file names twice, with different entries, an id that is
\* not stored: the first entry was added, the second counted as an update
C9_Witness ==
  /\ last.op = "importData" /\ ~last.threw
  /\ io.stats.added = 1 /\ io.stats.updated >= 1
  /\ \E i, j \in ValidAt(io.arg.val.items) :
       /\ i < j
       /\ io.arg.val.items[i].id = io.arg.val.items[j].id
       /\ io.arg.val.items[i] # io.arg.val.items[j]
       /\ io.arg.val.items[i].id \notin idsOf(stored(io.pre))

\* C10: the collection a successful importData returns and persists is in
\* descending order of updatedAt, the stored records that were carried over
\* as well as the imported ones.
C10_ImportSortsByUpdatedAt ==
  (last.op = "importData" /\ ~last.threw)
    => /\ \A k \in 1 .. Len(io.ret) - 1 : io.ret[k].updatedAt >= io.ret[k + 1].updatedAt
       /\ stored(localStorage) = io.ret

\* an import into a collection that was stored in ascending order: a stored
\* record that was carried over now stands behind an imported one
C10_Witness ==
  /\ last.op = "importData" /\ ~last.threw
  /\ Len(stored(io.pre)) = 2
  /\ stored(io.pre)[1].updatedAt < stored(io.pre)[2].updatedAt
  /\ Len(io.ret) = 2
  /\ io.ret[1].updatedAt > io.ret[2].updatedAt
  /\ io.ret[2] = stored(io.pre)[1]
  /\ io.stats.updated = 1 /\ io.stats.added = 0

\* the record of the id in a collection in which the id occurs
recordOf(s, id) == s[CHOOSE k \in 1 .. Len(s) : s[k].id = id]

\* C11: a successful importData gives every valid entry's record (the last
\* entry of an id) the entry's fields where the entry has them and the
\* defaults where it has not: title "Untitled Prompt", breakdown "", tags
\* and useCases the empty sequence when they are no array, createdAt and
\* updatedAt the current time. A single entry with id and content only,
\* imported into an empty store, yields added 1, updated 0 and one record
\* titled "Untitled Prompt" with empty tags.
C11_ImportFillsDefaults ==
  (last.op = "importData" /\ ~last.threw)
    => LET items == io.arg.val.items
           valid == ValidAt(items)
           isLast(i) == \A j \in valid : items[j].id = items[i].id => j <= i
       IN /\ \A i \in valid :
               isLast(i) =>
                 LET p == items[i]
                     r == recordOf(io.ret, p.id)
                 IN /\ r.id = p.id /\ r.content = p.content
                    /\ r.title = IF p.title \in {Undef, ""} THEN "Untitled Prompt" ELSE p.title
                    /\ r.breakdown = IF p.breakdown \in {Undef, ""} THEN "" ELSE p.breakdown
                    /\ p.tags.array => r.tags = p.tags
                    /\ ~p.tags.array => r.tags = Array(<<>>)
                    /\ p.useCases.array => r.useCases = p.useCases
                    /\ ~p.useCases.array => r.useCases = Array(<<>>)
                    /\ r.createdAt = IF p.createdAt = NoTime THEN io.now ELSE p.createdAt
                    /\ r.updatedAt = IF p.updatedAt = NoTime THEN io.now ELSE p.updatedAt
          /\ (stored(io.pre) = <<>> /\ Len(items) = 1 /\ items[1] \in BareEntries)
               => /\ io.stats = [added |-> 1, updated |-> 0]
                  /\ Len(io.ret) = 1
                  /\ io.ret[1].title = "Untitled Prompt"
                  /\ io.ret[1].tags = Array(<<>>)
                  /\ stored(localStorage) = io.ret

\* the one entry with id and content only was imported into an empty store
C11_Witness ==
  /\ last.op = "importData" /\ ~last.threw
  /\ ~last.found.primary
  /\ Len(io.arg.val.items) = 1
  /\ io.arg.val.items[1] \in BareEntries
  /\ io.stats = [added |-> 1, updated |-> 0]
  /\ io.ret[1].title = "Untitled Prompt"
  /\ io.ret[1].createdAt = io.now

\* C16: restoreFromBackup() takes no snapshot and never changes the backup
\* slot. When a backup exists and the call returns, the primary slot holds
\* the backup blob and the call has returned its parsed contents; when no
\* backup exists it returns the empty sequence and leaves the primary slot
\* as it was. It throws only where the storage refuses the read or the
\* write, or the backup does not parse.
C16_RestoreFrame ==
  last.op = "restoreFromBackup"
    => /\ backup(localStorage) = backup(io.pre)
       /\ last.threw <=>
            \/ "getItem" \in last.env
            \/ /\ last.found.backup
               /\ (STORAGE_KEY \in last.env \/ backup(io.pre).kind # "json")
       /\ ~last.threw =>
            IF last.found.backup
            THEN /\ primary(localStorage) = backup(io.pre)
                 /\ io.ret = backup(io.pre).val.items
            ELSE /\ io.ret = <<>>
                 /\ primary(localStorage) = primary(io.pre)

\* a restore has replaced a primary blob by a different backup blob, which
\* is still in the backup slot
C16_Witness ==
  /\ last.op = "restoreFromBackup" /\ ~last.threw
  /\ last.found.backup /\ last.found.primary
  /\ primary(io.pre) # backup(io.pre)
  /\ primary(localStorage) = backup(io.pre)
  /\ backup(localStorage) = backup(io.pre)
  /\ io.ret # <<>>

\* C17: in savePrompt, savePrompts, deletePrompt and an importData that has
\* validated its file the snapshot comes first: whatever the call does to
\* the primary slot afterwards, and also when the write to it is refused,
\* the backup slot holds the primary blob the call found (replacing any
\* earlier snapshot) when there was one and the storage accepted the
\* snapshot, and is left as it was when there was no primary blob.
C17_SnapshotComesFirst ==
  (io.kept /\ Mutated(last))
    => /\ (last.found.primary /\ SnapshotAccepted(last))
            => backup(localStorage) = primary(io.pre)
       /\ ~last.found.primary => backup(localStorage) = backup(io.pre)

\* a mutating call whose write to the primary slot was refused has all the
\* same replaced an earlier snapshot by the blob it found
C17_Witness ==
  /\ io.kept /\ Mutated(last) /\ last.threw
  /\ last.found.primary /\ last.found.backup
  /\ backup(io.pre) # primary(io.pre)
  /\ backup(localStorage) = primary(io.pre)
  /\ primary(localStorage) = primary(io.pre)

\* the step is an import, which returns, of the file that exportData() gives
\* for the collection stored before it
RoundTrip ==
  /\ event'.handler = "handleFileChange"
  /\ event'.file = exportData(localStorage, {})
  /\ ~event'.threw

\* C12, as stated: importData(exportData()), where the storage accepts the
\* write, reports added 0 and updated the size of the collection, and the
\* stored collection then has the same records, field by field, as before.
C12_RoundTripReproduces ==
  [][ RoundTrip
        => /\ prompts'.stats.added = 0
           /\ prompts'.stats.updated = Len(stored(localStorage))
           /\ range(stored(localStorage')) = range(stored(localStorage)) ]_vars

\* C12, amended: the counts are as stated, the ids are the same, and every
\* record comes back as importData normalizes it: with the fields it had,
\* and with the default for each optional field it lacked, so that a record
\* the editor saved, which has no useCases, comes back with useCases the
\* empty sequence. The collection comes back in descending order of
\* updatedAt.
C12_RoundTripNormalizes ==
  [][ RoundTrip
        => LET old == stored(localStorage)
               new == stored(localStorage')
           IN /\ prompts'.stats.added = 0
              /\ prompts'.stats.updated = Len(old)
              /\ Len(new) = Len(old)
              /\ idsOf(new) = idsOf(old)
              /\ \A k \in 1 .. Len(old) :
                   recordOf(new, old[k].id) =
                     [old[k] EXCEPT
                        !.title = IF @ \in {Undef, ""} THEN "Untitled Prompt" ELSE @,
                        !.breakdown = IF @ = Undef THEN "" ELSE @,
                        !.tags = IF @.array THEN @ ELSE Array(<<>>),
                        !.useCases = IF @.array THEN @ ELSE Array(<<>>)]
              /\ \A k \in 1 .. Len(new) - 1 : new[k].updatedAt >= new[k + 1].updatedAt
              /\ prompts'.items = new ]_vars

\* an exported file of two records, one of them without useCases, has been
\* imported over the collection it was exported from
C12_Witness ==
  /\ event.handler = "handleFileChange" /\ ~event.threw
  /\ event.file.kind = "json"
  /\ Len(event.file.val.items) = 2
  /\ prompts.stats = [added |-> 0, updated |-> 2]
  /\ \E k \in 1 .. 2 : ~event.file.val.items[k].useCases.array
  /\ \A k \in 1 .. 2 : stored(localStorage)[k].useCases.array

\* the step is the one in which the analysis of the refine's item i settles
Settles == event'.handler = "analysisSettled"

\* the refine's list after that step, written out: item i with the title,
\* breakdown, tags and useCases of the analysis and the time of the step
\* when the analysis resolved, and as it was when it failed
ListAfterSettling ==
  [refine.updatedList EXCEPT
     ![refine.i] = IF event'.ok
                   THEN [@ EXCEPT !.title = "R", !.breakdown = "B",
                                  !.tags = Array(<<"t">>), !.useCases = NotArray,
                                  !.updatedAt = clock]
                   ELSE @]

\* C13, as stated: after each item whose analysis succeeds (the storage
\* refusing no write) the stored collection holds the item's refined
\* version.
C13_RefinePersistsProgressively ==
  [][ (Settles /\ event'.ok /\ ~event'.threw)
        => \E r \in range(stored(localStorage')) : r = ListAfterSettling[refine.i] ]_vars

\* C13, amended: the refine persists once, after its last item. A step of
\* the loop before the last leaves both storage slots as they are and
\* shows the refined item in the view only; the step of the last item
\* stores the whole list, refined and unrefined items alike, by one
\* savePrompts. A page that is loaded again part-way leaves the stored
\* collection without any of the refined versions.
C13_RefinePersistsAtTheEnd ==
  [][ /\ Settles =>
           IF refine.i < Len(refine.updatedList)
           THEN /\ localStorage' = localStorage
                /\ refine'.pending
                /\ (event'.ok /\ prompts.array) => prompts' = Array(ListAfterSettling)
           ELSE ~event'.threw => stored(localStorage') = ListAfterSettling
      /\ event'.handler = "mount" =>
           /\ localStorage' = localStorage
           /\ ~refine'.pending ]_vars

\* the first of two items has been refined: the view shows it, the loop
\* waits for the second, and the stored collection has the old version
C13_Witness ==
  /\ event.handler = "analysisSettled" /\ event.ok
  /\ refine.pending /\ refine.i = 2
  /\ refine.updatedList[1].title = "R"
  /\ prompts = Array(refine.updatedList)
  /\ Len(stored(localStorage)) = 2
  /\ stored(localStorage)[1].id = refine.updatedList[1].id
  /\ stored(localStorage)[1].title = "T"

\* C14: while the analysis of a refine is pending, no save, delete, import,
\* restore or second refine runs.
C14_NothingRunsWhileRefining ==
  [][ refine.pending
        => ~ \/ event'.handler = "handleSave" /\ event'.ok
             \/ event'.handler \in { "handleDeletePrompt", "handleFileChange",
                                     "handleRestoreBackup", "handleRefineLibrary" } ]_vars

C18_StoredRecordsHaveIdAndContent ==
  \A r \in range(stored(localStorage)) : TruthyStr(r.id) /\ TruthyStr(r.content)

\* an import has dropped its file's entry without content and stored the
\* other one
C18_Witness ==
  /\ event.handler = "handleFileChange" /\ ~event.threw
  /\ Len(event.file.val.items) = 2
  /\ event.file.val.items[1].content = ""
  /\ Len(stored(localStorage)) >= 1
  /\ \E r \in range(stored(localStorage)) : r = event.file.val.items[2]

\* C19: in every state that editor saves, deletes, imports, refines and
\* restores lead to from the empty storage, no two records of the stored
\* collection have the same id.
C19_StoredIdsAreUnique ==
  uniqueIds(stored(localStorage))

\* the editor has saved, a second time, one of two stored records
C19_Witness ==
  /\ event.handler = "handleSave" /\ event.ok /\ ~event.threw
  /\ Len(stored(localStorage)) = 2
  /\ \E r \in range(stored(localStorage)) :
       r.id = event.id /\ r.createdAt < r.updatedAt

\* the step stores records: an editor save, the end of a refine, an import
Saves ==
  /\ ~event'.threw
  /\ \/ event'.handler = "handleSave" /\ event'.ok
     \/ Settles /\ refine.i = Len(refine.updatedList)
     \/ event'.handler = "handleFileChange"

\* C20, as stated: a save (by the editor, the refine or an import) leaves
\* every stored record that it keeps its createdAt, and gives every record
\* it changes the time of the save as updatedAt.
C20_CreatedAtNeverChanges ==
  [][ Saves =>
        \A r \in range(stored(localStorage)), r2 \in range(stored(localStorage')) :
          r2.id = r.id => /\ r2.createdAt = r.createdAt
                          /\ r2 # r => r2.updatedAt = clock ]_vars

\* C20, amended. The editor's save of a record rendered keeps the record's
\* id and createdAt and sets updatedAt to the time of the save; its save
\* of a new prompt sets both to that time. The refine keeps id, content
\* and createdAt of every record of its list, and sets updatedAt, of the
\* records whose analysis resolved, to the time it resolved. An import
\* replaces the record of an id by the file's last valid entry of that id,
\* with the createdAt and updatedAt the entry gives and the time of the
\* import where it gives none, and leaves the other records as they are.
C20_CreatedAtKeptByEditorAndRefine ==
  [][ /\ (event'.handler = "handleSave" /\ event'.ok /\ ~event'.threw)
           => LET r == recordOf(stored(localStorage'), event'.id)
                  edited == { p \in range(prompts.items) : p.id = event'.id }
              IN /\ r.updatedAt = clock
                 /\ \A p \in edited : r.createdAt = p.createdAt
                 /\ edited = {} => r.createdAt = clock
                 /\ \A q \in range(stored(localStorage)) :
                      q.id # r.id => q \in range(stored(localStorage'))
      /\ Settles
           => LET list == IF refine'.pending THEN refine'.updatedList
                          ELSE stored(localStorage')
              IN (refine'.pending \/ ~event'.threw)
                   => /\ Len(list) = Len(refine.updatedList)
                      /\ \A k \in 1 .. Len(list) :
                           /\ list[k].id = refine.updatedList[k].id
                           /\ list[k].content = refine.updatedList[k].content
                           /\ list[k].createdAt = refine.updatedList[k].createdAt
                           /\ list[k].updatedAt =
                                IF k = refine.i /\ event'.ok THEN clock
                                ELSE refine.updatedList[k].updatedAt
      /\ (event'.handler = "handleFileChange" /\ ~event'.threw)
           => LET items == event'.file.val.items
                  valid == ValidAt(items)
                  new == stored(localStorage')
              IN /\ \A i \in valid :
                      (\A j \in valid : items[j].id = items[i].id => j <= i)
                        => LET r == recordOf(new, items[i].id)
                           IN /\ r.createdAt = IF items[i].createdAt = NoTime
                                               THEN clock ELSE items[i].createdAt
                              /\ r.updatedAt = IF items[i].updatedAt = NoTime
                                               THEN clock ELSE items[i].updatedAt
                 /\ \A q \in range(stored(localStorage)) :
                      q.id \notin { items[i].id : i \in valid } => q \in range(new) ]_vars

\* an import has replaced a stored record, which the snapshot still shows,
\* by an entry of its id with another createdAt
C20_Witness ==
  /\ event.handler = "handleFileChange" /\ ~event.threw
  /\ event.file.kind = "json" /\ Len(event.file.val.items) = 1
  /\ backup(localStorage).kind = "json"
  /\ \E q \in range(backup(localStorage).val.items) :
       /\ q.id = event.file.val.items[1].id
       /\ q.createdAt # event.file.val.items[1].createdAt
       /\ recordOf(stored(localStorage), q.id).createdAt = event.file.val.items[1].createdAt

\* the storage refused a write this call made: the snapshot, which is written
\* when a primary blob was read, or the collection
BackupWriteRefused(call) ==
  call.found.primary /\ ~getItemThrows(call.env) /\ setItemThrows(call.env, BACKUP_KEY)
PrimaryWriteRefused(call) == setItemThrows(call.env, STORAGE_KEY)

\* C21, as stated: whenever a write to storage, to the backup key or to the
\* primary key, fails inside savePrompt, savePrompts, deletePrompt or an
\* importData that validated its file, the operation throws to its caller
\* and does not report success.
C21_NoWriteFailureIsSwallowed ==
  (io.kept /\ Mutated(last)
     /\ (BackupWriteRefused(last) \/ PrimaryWriteRefused(last)))
    => last.threw

\* C21, amended: a refused write to the primary key is never swallowed: the
\* operation throws the storage's error, returns nothing and leaves the
\* primary slot as it was, and it throws in no other case. A refused write
\* to the backup key is swallowed by createBackup: the operation leaves the
\* backup slot as it was, goes on to write the primary slot and returns.
C21_OnlyPrimaryWriteFailurePropagates ==
  (io.kept /\ Mutated(last))
    => /\ last.threw <=> PrimaryWriteRefused(last)
       /\ last.threw
            => /\ last.error = "QuotaExceededError"
               /\ io.ret = <<>>
               /\ primary(localStorage) = primary(io.pre)
       /\ (BackupWriteRefused(last) /\ ~PrimaryWriteRefused(last))
            => /\ backup(localStorage) = backup(io.pre)
               /\ primary(localStorage).kind = "json"

\* a mutating call whose snapshot the storage refused has returned, with the
\* primary slot rewritten and the earlier snapshot still in the backup slot
C21_Witness ==
  /\ io.kept /\ Mutated(last) /\ ~last.threw
  /\ BackupWriteRefused(last) /\ last.found.backup
  /\ backup(localStorage) = backup(io.pre)
  /\ backup(io.pre) # primary(io.pre)
  /\ primary(localStorage) # primary(io.pre)

\* C27: a successful importData removes and alters no stored record whose id
\* is not the id of a valid entry of the file: the ids of the collection it
\* returns and persists are the stored ids together with the valid imported
\* ids, and every stored record with another id is in the result once, with
\* all its fields as they were stored.
C27_ImportKeepsUntouchedRecords ==
  (last.op = "importData" /\ ~last.threw)
    => LET items == io.arg.val.items
           importedIds == { items[i].id : i \in ValidAt(items) }
           old == stored(io.pre)
           new == stored(localStorage)
       IN /\ new = io.ret
          /\ idsOf(new) = idsOf(old) \cup importedIds
          /\ \A j \in 1 .. Len(old) :
               old[j].id \notin importedIds
                 => Cardinality({ k \in 1 .. Len(new) : new[k] = old[j] }) = 1
          /\ Len(new) = Cardinality(idsOf(old) \cup importedIds)

\* an import of a valid entry into a collection that holds a record with
\* another id, written at another time than the import: the record is
\* still stored, next to the imported one
C27_Witness ==
  /\ last.op = "importData" /\ ~last.threw
  /\ ValidAt(io.arg.val.items) # {}
  /\ \E j \in 1 .. Len(stored(io.pre)) :
       /\ \A i \in ValidAt(io.arg.val.items) :
            io.arg.val.items[i].id # stored(io.pre)[j].id
       /\ stored(io.pre)[j].updatedAt # io.now
       /\ stored(io.pre)[j] \in range(stored(localStorage))
  /\ Len(stored(localStorage)) > Len(stored(io.pre))

\* C26: from the empty storage, after any sequence of savePrompt,
\* savePrompts, deletePrompt, importData and restoreFromBackup (reads and
\* refused accesses included), a backup slot that holds a blob goes with a
\* primary slot that holds one, and the backup blob is a value the primary
\* slot held earlier: the backup slot starts empty and every step leaves it
\* as it was or puts into it the blob the primary slot held before the step.
C26_BackupWasPrimary ==
  /\ [](hasBackup(localStorage) => TruthyText(primary(localStorage)))
  /\ [][ \/ backup(localStorage') = backup(localStorage)
         \/ /\ TruthyText(primary(localStorage))
            /\ backup(localStorage') = primary(localStorage) ]_vars

\* a delete has emptied the collection: the backup slot holds the blob the
\* primary slot held before, the primary slot the empty collection
C26_Witness ==
  /\ last.op = "deletePrompt" /\ ~last.threw
  /\ hasBackup(localStorage)
  /\ stored(localStorage) = <<>>
  /\ TruthyText(primary(localStorage))
  /\ backup(localStorage) # primary(localStorage)

\* the step is a user action on the store that has run to its end: an
\* editor save, a delete, an import, a restore, or the end of a refine
Completes ==
  /\ ~event'.threw
  /\ \/ event'.handler = "handleSave" /\ event'.ok
     \/ event'.handler \in {"handleDeletePrompt", "handleFileChange", "handleRestoreBackup"}
     \/ event'.handler = "analysisSettled" /\ ~refine'.pending

\* C23: after every completed user action that touches the store (editor
\* save, delete, import, restore from backup, end of refine) the collection
\* held in the UI state prompts is the collection stored in the primary
\* slot.
C23_ViewShowsStored ==
  [][ Completes => (prompts'.array /\ prompts'.items = stored(localStorage')) ]_vars

\* the ids of a collection, in its order
idSeq(s) == [k \in 1 .. Len(s) |-> s[k].id]

\* C24: a refine adds and removes no record: when handleRefineLibrary
\* completes, the persisted collection has exactly the ids, in the same
\* order, that were persisted immediately before its final write, whatever
\* saves, deletes, imports or restores ran while analysis calls were
\* pending.
C24_RefineKeepsStoredIds ==
  [][ (event'.handler = "analysisSettled" /\ ~refine'.pending /\ ~event'.threw)
        => idSeq(stored(localStorage')) = idSeq(stored(localStorage)) ]_vars

\* C28: a refine that has started finishes: once every analysis call has
\* settled and handleRefineLibrary has run to its end (no await of it is
\* pending any more), isRefining is false again, so that the Refine button
\* is enabled again.
C28_RefineEndsIdle ==
  ~refine.pending => ~refine.isRefining

\* C25: the result of an analysis call is applied to the form of the prompt
\* whose content was analysed only: when the editor has been closed and
\* opened for another prompt while the call was pending, the late result
\* leaves the fields of the form that is then open as they are.
C25_LateResultLeavesOtherForm ==
  [][ (/\ event'.handler = "editorAnalysisSettled"
       /\ editor.isOpen
       /\ editor.initialData # editor.analysed)
        => editor'.form = editor.form ]_vars

\* A CSV reader (RFC 4180): fields are separated by commas, records by line
\* feeds; a field that begins with a quote runs to the next quote that is
\* not doubled, and a doubled quote in it stands for one quote. The reader
\* is at the start of a field, in a plain field, in a quoted field, or
\* behind a quote inside a quoted field; it rejects a quote in a plain
\* field and a symbol other than a separator behind a closing quote.
readerStart == [state |-> "start", field |-> <<>>, row |-> <<>>, rows |-> <<>>]

\* the reader after the symbol c
readerStep(r, c) ==
  IF r.state = "quoted"
  THEN IF c = QUOTE THEN [r EXCEPT !.state = "quote"]
       ELSE [r EXCEPT !.field = @ \o <<c>>]
  ELSE IF c = QUOTE
  THEN IF r.state = "quote" THEN [r EXCEPT !.state = "quoted", !.field = @ \o <<QUOTE>>]
       ELSE IF r.state = "start" THEN [r EXCEPT !.state = "quoted"]
       ELSE [r EXCEPT !.state = "rejected"]
  ELSE IF c = COMMA
  THEN [r EXCEPT !.state = "start", !.field = <<>>, !.row = @ \o <<r.field>>]
  ELSE IF c = LF
  THEN [state |-> "start", field |-> <<>>, row |-> <<>>,
        rows |-> r.rows \o <<r.row \o <<r.field>>>>]
  ELSE IF r.state = "quote" THEN [r EXCEPT !.state = "rejected"]
  ELSE [r EXCEPT !.state = "plain", !.field = @ \o <<c>>]

RECURSIVE readerRun(_, _, _, _)
\* the reader after the symbols text[from .. to], read from left to right;
\* it stops where it rejects
readerRun(r, text, from, to) ==
  IF from > to THEN r
  ELSE IF from = to THEN readerStep(r, text[from])
  ELSE LET mid == (from + to) \div 2
           left == readerRun(r, text, from, mid)
       IN IF left.state = "rejected" THEN left
          ELSE readerRun(left, text, mid + 1, to)

\* the records of a text, each the sequence of its fields; none when the
\* reader rejects the text or the text ends inside a quoted field
readCsv(text) ==
  LET r == readerRun(readerStart, text, 1, Len(text))
  IN IF r.state \in {"rejected", "quoted"} THEN <<>>
     ELSE r.rows \o <<r.row \o <<r.field>>>>

\* C22: exportAsCsv puts every field of every record between double quotes
\* with each quote in it doubled, so that a CSV reader gets back each field
\* text exactly, commas, quotes and line feeds included; the output begins
\* with the byte-order marker, and the header row of seven columns follows.
C22_CsvReadsBack ==
  (last.op = "exportAsCsv")
    => LET records == getPrompts(io.pre, last.env).ret
       IN /\ ~last.threw
          /\ Head(io.ret) = BOM
          /\ readCsv(Tail(io.ret))
               = <<headers>> \o [k \in 1 .. Len(records) |-> cells(records[k])]
          /\ Len(headers) = 7
          /\ \A k \in 1 .. Len(join(headers, <<COMMA>>)) :
               io.ret[k + 1] = join(headers, <<COMMA>>)[k]

\* an export of two records, the first with a comma in its tags cell and a
\* quote and a line feed in its breakdown
C22_Witness ==
  /\ last.op = "exportAsCsv" /\ ~last.threw
  /\ Len(stored(io.pre)) = 2
  /\ stored(io.pre)[1].breakdown = <<QUOTE, LF>>
  /\ COMMA \in range(cells(stored(io.pre)[1])[4])
  /\ Len(readCsv(Tail(io.ret))) = 3

====
